---- MODULE Spec2Model ----
(***************************************************************************)
(* Model of the two GPIO utilities of the repository:                      *)
(*   - the direct-register toggler (src/flash_fast.cpp), and               *)
(*   - the software-PWM driver (src/unnamed/part_000).                     *)
(* One behaviour is one run of one of the two programs (variable prog).    *)
(*                                                                         *)
(* Representation choices:                                                 *)
(*   - a C string is a sequence of one-character strings;                  *)
(*   - a 32-bit register word is the set of its 1-bit positions (0..31),   *)
(*     so 1u << k is {k} and bit 31 is a bit like the others;              *)
(*   - a pointer into the register window is [base, word]: the mapping it  *)
(*     was derived from and the uint32_t index added to it;                *)
(*   - the PWM inputs are whole numbers (Hz, percent); periodUs, a double  *)
(*     in the code, is the exact quotient UsPerSecond / frequencyHz kept   *)
(*     as that fraction.                                                   *)
(***************************************************************************)
EXTENDS Integers, Sequences, FiniteSets, TLC

\* Longest command-line argument string that is enumerated.
MaxArgLen == 2

\* ------------------------------------------------------------------------
\* Program constants
\* ------------------------------------------------------------------------
GPSET0 == 7
GPCLR0 == 10
MaxPin == 53
UsPerSecond == 1000000
FullPercent == 100

Pins == 0..MaxPin
Bits == 0..31
FselRegs == 0..5

Signals == {"SIGINT", "SIGTERM"}

\* ------------------------------------------------------------------------
\* Inputs
\* ------------------------------------------------------------------------
Digit == {"0", "1", "2", "3", "4", "5", "6", "7", "8", "9"}
\* Characters the enumerated arguments are made of: digits that spell the
\* pins 0..5, 7, 10..15, 17, ..., 50..53 and the rejected 54, 55, 57, 70..,
\* a sign, a letter and a blank.
ArgChars == {"0", "1", "2", "3", "4", "5", "7", "-", "a", " "}
ArgStrings == UNION {[1..n -> ArgChars] : n \in 1..MaxArgLen}

\* Argument vectors without argv[0]: none, one, or two arguments.
ArgVectors ==
  {<<>>} \cup {<<s>> : s \in ArgStrings}
         \cup {<< <<"1">>, <<"2">> >>, << <<"a">>, <<"5", "4">> >>}

\* Contents of the function-select registers and of the output latches
\* found at start-up (left by whatever ran before).
AltPattern == {b \in Bits : b % 3 = 2 \/ b = 30}
FselInits == {[r \in FselRegs |-> {}],
              [r \in FselRegs |-> IF r % 2 = 0 THEN Bits ELSE AltPattern]}
LatchInits == {{}, Pins}

ChipInputs == {0, 1}
PinInputs == {18}
FrequencyInputs == {-1, 0, 1, 3, 8, 100, 300, 5000, 9999, 10000, 10001,
                    1000000, 2000000}
BrightnessInputs == (-2..102) \cup {-5, 150}

VARIABLES
  prog,        \* which executable runs: "toggler" or "pwm"
  pc,          \* position of the main flow
  exitKind,    \* "running", "exit" (return/exit/_exit), "killed", "sigsegv"
  exitCode,    \* exit status when exitKind = "exit"
  acqFailed,   \* a hardware acquisition call has failed
  \* --- toggler ---
  argv,        \* arguments after argv[0]
  targetPin,   \* static int targetPin
  gpio,        \* static volatile uint32_t *gpio: "nullptr" or "window"
  regSet,      \* main's local pointers and mask
  regClr,
  mask,
  v,           \* setPinOutput's local v
  window,      \* the mapping in the address space: "none","mapped","unmapped"
  devOpens,    \* number of open("/dev/mem") calls
  fdOpen,      \* the descriptor is open
  munmaps,     \* number of munmap calls
  handlers,    \* signals whose disposition is sigHandler
  hstack,      \* running signal handlers, innermost last
  caught,      \* a signal was delivered to sigHandler with both installed
  fsel,        \* hardware: GPFSEL0..5
  fsel0,       \* contents of GPFSEL0..5 at start-up
  latch,       \* hardware: pins whose output latch is high
  lastWrite,   \* last store that reached the set/clear registers
  mainWrites,  \* kinds of the first register stores of the main flow
  faults,      \* stores made through a null or unmapped pointer
  \* --- software PWM ---
  chipNum, pinNum, frequencyHz, brightnessPercent,
  onTimeUs, offTimeUs,
  lineHeld,    \* the line is requested as output
  lineValue,   \* value driven on the line
  everHigh,    \* set_value(1) was called
  everLow,     \* set_value(0) was called
  lastSleep    \* length of the last sleep_for, -1 before any

procVars == <<prog, pc, exitKind, exitCode, acqFailed>>
argVars == <<argv, targetPin>>
mapVars == <<gpio, window, devOpens, fdOpen, munmaps>>
locVars == <<regSet, regClr, mask, v>>
sigVars == <<handlers, hstack, caught>>
hwVars == <<fsel, fsel0, latch, lastWrite, mainWrites, faults>>
togVars == <<argVars, mapVars, locVars, sigVars, hwVars>>
pwmVars == <<chipNum, pinNum, frequencyHz, brightnessPercent, onTimeUs,
             offTimeUs, lineHeld, lineValue, everHigh, everLow, lastSleep>>
vars == <<procVars, togVars, pwmVars>>

NoPtr == [base |-> "nullptr", word |-> 0]
NoWrite == [by |-> "none", word |-> 0, mask |-> {}]

\* ------------------------------------------------------------------------
\* atoi (libc), as main uses it
\* ------------------------------------------------------------------------
DigitVal(c) ==
  CASE c = "0" -> 0 [] c = "1" -> 1 [] c = "2" -> 2 [] c = "3" -> 3
    [] c = "4" -> 4 [] c = "5" -> 5 [] c = "6" -> 6 [] c = "7" -> 7
    [] c = "8" -> 8 [] c = "9" -> 9

RECURSIVE SkipSpace(_, _)
SkipSpace(s, i) ==
  IF i <= Len(s) /\ s[i] = " " THEN SkipSpace(s, i + 1) ELSE i

RECURSIVE AtoiDigits(_, _, _)
AtoiDigits(s, i, n) ==
  IF i <= Len(s) /\ s[i] \in Digit
    THEN AtoiDigits(s, i + 1, n * 10 + DigitVal(s[i]))
    ELSE n

\* Leading white space, an optional sign, then the longest run of digits;
\* 0 when there is no digit.
atoi(s) ==
  LET i0 == SkipSpace(s, 1)
      signed == i0 <= Len(s) /\ s[i0] \in {"-", "+"}
      i1 == IF signed THEN i0 + 1 ELSE i0
      n == AtoiDigits(s, i1, 0)
  IN IF signed /\ s[i0] = "-" THEN 0 - n ELSE n

\* ------------------------------------------------------------------------
\* Register window and hardware
\* ------------------------------------------------------------------------
\* A store through p reaches the registers only while p points into the
\* mapping and the mapping is in place.
Mapped(p) == p.base = "window" /\ window = "mapped"

\* The pins a set/clear word with mask m addresses in register group g.
GroupPins(g, m) == {q \in Pins : q \div 32 = g /\ (q % 32) \in m}

\* GPSETn drives the addressed latches high, GPCLRn low; 0 bits do nothing.
LatchAfter(word, m) ==
  IF word \in {GPSET0, GPSET0 + 1} THEN latch \cup GroupPins(word - GPSET0, m)
  ELSE IF word \in {GPCLR0, GPCLR0 + 1}
    THEN latch \ GroupPins(word - GPCLR0, m)
  ELSE latch

\* A pin drives its pad high when its function-select field is 001 (output)
\* and its latch is high.
IsOutput(f, q) ==
  LET r == f[q \div 10]
      sh == (q % 10) * 3
  IN sh \in r /\ (sh + 1) \notin r /\ (sh + 2) \notin r

DrivenHigh(q) == IsOutput(fsel, q) /\ q \in latch

\* Outcomes of a store to an address that is not mapped (a null or stale
\* pointer): the kernel raises SIGSEGV, or the store is lost.
FaultOutcomes == {"sigsegv", "lost"}

\* *p = m on a set/clear register, issued by `by`.
Store(p, m, by) ==
  IF Mapped(p)
    THEN /\ latch' = LatchAfter(p.word, m)
         /\ lastWrite' = [by |-> by, word |-> p.word, mask |-> m]
         /\ UNCHANGED <<faults, exitKind, exitCode>>
    ELSE /\ faults' = faults + 1
         /\ \E o \in FaultOutcomes :
              exitKind' = IF o = "sigsegv" THEN "sigsegv" ELSE exitKind
         /\ UNCHANGED <<latch, lastWrite, exitCode>>

\* Variant: the clear register of group 0 whatever the pin.
ClrPtrGroup0(pin) == [base |-> gpio, word |-> GPCLR0]

\* setPinLow: gpio + (0x28 / sizeof(uint32_t)) + (pin / 32)
ClrPtr(pin) == [base |-> gpio, word |-> GPCLR0 + (pin \div 32)]

\* 1u << (pin & 31)
PinMask(pin) == {pin % 32}

\* main's regSet and regClr: GPSET0 and GPCLR0, with no group offset
LoopSetPtr == [base |-> gpio, word |-> GPSET0]
LoopClrPtr == [base |-> gpio, word |-> GPCLR0]

\* Variant: the field is or-ed in without being cleared first.
FselOutputNoClear(val, pin) == val \cup {(pin % 10) * 3}

\* v &= ~(0x7u << shift); v |= (0x1u << shift);
FselOutput(val, pin) ==
  LET shift == (pin % 10) * 3
  IN (val \ {shift, shift + 1, shift + 2}) \cup {shift}

LogMain(kind) ==
  IF Len(mainWrites) < 3 THEN Append(mainWrites, kind) ELSE mainWrites

\* ------------------------------------------------------------------------
\* Toggler: main flow
\* ------------------------------------------------------------------------
Running == exitKind = "running"
MainTurn(p) == prog = p /\ Running /\ hstack = <<>>

Exit(code) == exitKind' = "exit" /\ exitCode' = code

\* Variant: the range check without its lower bound.
InvalidPinNoLower(p) == p > MaxPin

\* targetPin < 0 || targetPin > 53
InvalidPin(p) == p < 0 \/ p > MaxPin

\* Variant: the result of open is not checked.
AfterOpenUnchecked(ok) == "mmap"

\* where mapGpio goes after open and after mmap
AfterOpen(ok) == IF ok THEN "mmap" ELSE "map_failed"
AfterMmap(ok) == IF ok THEN "sigint" ELSE "map_failed"

\* if (argc != 2) return 1;
CheckArgc ==
  /\ MainTurn("toggler") /\ pc = "start"
  /\ IF Len(argv) + 1 # 2
       THEN Exit(1) /\ pc' = "done"
       ELSE pc' = "atoi" /\ UNCHANGED <<exitKind, exitCode>>
  /\ UNCHANGED <<prog, acqFailed, togVars, pwmVars>>

\* targetPin = atoi(argv[1]);
ParsePin ==
  /\ MainTurn("toggler") /\ pc = "atoi"
  /\ targetPin' = atoi(argv[1])
  /\ pc' = "range"
  /\ UNCHANGED <<prog, exitKind, exitCode, acqFailed, argv, mapVars, locVars, sigVars,
                 hwVars, pwmVars>>

\* if (targetPin < 0 || targetPin > 53) return 1;
CheckRange ==
  /\ MainTurn("toggler") /\ pc = "range"
  /\ IF InvalidPin(targetPin)
       THEN Exit(1) /\ pc' = "done"
       ELSE pc' = "open" /\ UNCHANGED <<exitKind, exitCode>>
  /\ UNCHANGED <<prog, acqFailed, togVars, pwmVars>>

\* mapGpio: open("/dev/mem"); on failure return false
OpenDevMem ==
  /\ MainTurn("toggler") /\ pc = "open"
  /\ devOpens' = devOpens + 1
  /\ \E ok \in BOOLEAN :
       /\ fdOpen' = ok
       /\ acqFailed' = ~ok
       /\ pc' = AfterOpen(ok)
  /\ UNCHANGED <<prog, exitKind, exitCode, argVars, gpio, window, munmaps,
                 locVars, sigVars, hwVars, pwmVars>>

\* mapGpio: mmap; close(fd); on failure return false, else gpio = m
MmapWindow ==
  /\ MainTurn("toggler") /\ pc = "mmap"
  /\ fdOpen' = FALSE
  /\ \E ok \in BOOLEAN :
       /\ IF ok
            THEN window' = "mapped" /\ gpio' = "window"
            ELSE UNCHANGED <<window, gpio>>
       /\ acqFailed' = ~ok
       /\ pc' = AfterMmap(ok)
  /\ UNCHANGED <<prog, exitKind, exitCode, argVars, devOpens, munmaps,
                 locVars, sigVars, hwVars, pwmVars>>

\* if (!mapGpio()) return 1;
MapFailed ==
  /\ MainTurn("toggler") /\ pc = "map_failed"
  /\ Exit(1) /\ pc' = "done"
  /\ UNCHANGED <<prog, acqFailed, togVars, pwmVars>>

\* setExitHandler: sigaction(SIGINT, &sa, NULL) with sa_mask and sa_flags 0
InstallSigint ==
  /\ MainTurn("toggler") /\ pc = "sigint"
  /\ handlers' = handlers \cup {"SIGINT"}
  /\ pc' = "sigterm"
  /\ UNCHANGED <<prog, exitKind, exitCode, acqFailed, argVars, mapVars, locVars, hstack,
                 caught, hwVars, pwmVars>>

\* setExitHandler: sigaction(SIGTERM, &sa, NULL)
InstallSigterm ==
  /\ MainTurn("toggler") /\ pc = "sigterm"
  /\ handlers' = handlers \cup {"SIGTERM"}
  /\ pc' = "fsel_read"
  /\ UNCHANGED <<prog, exitKind, exitCode, acqFailed, argVars, mapVars, locVars, hstack,
                 caught, hwVars, pwmVars>>

\* setPinOutput: uint32_t v = *fselReg;
FselRead ==
  /\ MainTurn("toggler") /\ pc = "fsel_read"
  /\ v' = fsel[targetPin \div 10]
  /\ pc' = "fsel_write"
  /\ UNCHANGED <<prog, exitKind, exitCode, acqFailed, argVars, mapVars, regSet, regClr,
                 mask, sigVars, hwVars, pwmVars>>

\* setPinOutput: clear the field, set it to 001, *fselReg = v;
FselWrite ==
  /\ MainTurn("toggler") /\ pc = "fsel_write"
  /\ v' = FselOutput(v, targetPin)
  /\ fsel' = [fsel EXCEPT ![targetPin \div 10] = FselOutput(v, targetPin)]
  /\ mainWrites' = LogMain("fsel")
  /\ pc' = "init_low"
  /\ UNCHANGED <<prog, exitKind, exitCode, acqFailed, argVars, mapVars, regSet, regClr,
                 mask, sigVars, fsel0, latch, lastWrite, faults, pwmVars>>

\* setPinOutput: setPinLow(pin);
InitLow ==
  /\ MainTurn("toggler") /\ pc = "init_low"
  /\ Store(ClrPtr(targetPin), PinMask(targetPin), "setPinOutput")
  /\ mainWrites' = LogMain("clr")
  /\ pc' = "bind"
  /\ UNCHANGED <<prog, acqFailed, argVars, mapVars, locVars, sigVars, fsel,
                 fsel0, pwmVars>>

\* main: regSet, regClr and mask are computed once, before the loop
BindRegs ==
  /\ MainTurn("toggler") /\ pc = "bind"
  /\ regSet' = LoopSetPtr
  /\ regClr' = LoopClrPtr
  /\ mask' = PinMask(targetPin)
  /\ pc' = "loop_set"
  /\ UNCHANGED <<prog, exitKind, exitCode, acqFailed, argVars, mapVars, v, sigVars,
                 hwVars, pwmVars>>

\* while (true) { *regSet = mask;
LoopSet ==
  /\ MainTurn("toggler") /\ pc = "loop_set"
  /\ Store(regSet, mask, "loop_set")
  /\ mainWrites' = LogMain("set")
  /\ pc' = "loop_clr"
  /\ UNCHANGED <<prog, acqFailed, argVars, mapVars, locVars, sigVars, fsel,
                 fsel0, pwmVars>>

\* *regClr = mask; }
LoopClr ==
  /\ MainTurn("toggler") /\ pc = "loop_clr"
  /\ Store(regClr, mask, "loop_clr")
  /\ mainWrites' = LogMain("clr")
  /\ pc' = "loop_set"
  /\ UNCHANGED <<prog, acqFailed, argVars, mapVars, locVars, sigVars, fsel,
                 fsel0, pwmVars>>

\* ------------------------------------------------------------------------
\* Toggler: signals
\* ------------------------------------------------------------------------
\* A signal whose handler is running is blocked (no SA_NODEFER); the other
\* one is not (sa_mask is empty).
InHandler(sig) == \E i \in 1..Len(hstack) : hstack[i].sig = sig

Top == hstack[Len(hstack)]
HandlerTurn(step) == Running /\ hstack # <<>> /\ Top.pc = step
Goto(step) == hstack' = [hstack EXCEPT ![Len(hstack)].pc = step]

\* Delivery of a signal whose disposition is sigHandler.
CatchSignal ==
  /\ Running
  /\ \E sig \in handlers :
       /\ ~InHandler(sig)
       /\ hstack' = Append(hstack, [sig |-> sig, pc |-> "h_setlow"])
  /\ caught' = (caught \/ handlers = Signals)
  /\ UNCHANGED <<procVars, argVars, mapVars, locVars, handlers, hwVars,
                 pwmVars>>

\* Delivery of a signal with the default disposition: the process dies.
KillBySignal ==
  /\ Running
  /\ \E sig \in Signals \ handlers : exitKind' = "killed"
  /\ UNCHANGED <<prog, pc, exitCode, acqFailed, togVars, pwmVars>>

\* sigHandler: setPinLow(targetPin);
HSetLow ==
  /\ HandlerTurn("h_setlow")
  /\ Store(ClrPtr(targetPin), PinMask(targetPin), "sigHandler")
  /\ Goto("h_check")
  /\ UNCHANGED <<prog, pc, acqFailed, argVars, mapVars, locVars, handlers,
                 caught, fsel, fsel0, mainWrites, pwmVars>>

\* unmapGpio: if (gpio)
HCheck ==
  /\ HandlerTurn("h_check")
  /\ Goto(IF gpio # "nullptr" THEN "h_munmap" ELSE "h_exit")
  /\ UNCHANGED <<procVars, argVars, mapVars, locVars, handlers, caught,
                 hwVars, pwmVars>>

\* unmapGpio: munmap((void *)gpio, GPIO_LEN);
HMunmap ==
  /\ HandlerTurn("h_munmap")
  /\ munmaps' = munmaps + 1
  /\ window' = IF window = "mapped" THEN "unmapped" ELSE window
  /\ Goto("h_null")
  /\ UNCHANGED <<procVars, argVars, gpio, devOpens, fdOpen, locVars,
                 handlers, caught, hwVars, pwmVars>>

\* unmapGpio: gpio = nullptr;
HNull ==
  /\ HandlerTurn("h_null")
  /\ gpio' = "nullptr"
  /\ Goto("h_exit")
  /\ UNCHANGED <<procVars, argVars, window, devOpens, fdOpen, munmaps,
                 locVars, handlers, caught, hwVars, pwmVars>>

\* sigHandler: _exit(0);
HExit ==
  /\ HandlerTurn("h_exit")
  /\ Exit(0)
  /\ UNCHANGED <<prog, pc, acqFailed, togVars, pwmVars>>

\* ------------------------------------------------------------------------
\* Software PWM: timing arithmetic
\* ------------------------------------------------------------------------
\* (long)x for the fraction x = n / d, d > 0: truncation toward zero
Trunc(n, d) == IF n >= 0 THEN n \div d ELSE 0 - ((0 - n) \div d)

\* if (brightnessPercent < 0) ... = 0; if (brightnessPercent > 100) ... = 100;
ClampBrightness(b) == IF b < 0 THEN 0 ELSE IF b > FullPercent THEN FullPercent ELSE b

\* if (frequencyHz <= 0) frequencyHz = 1;
ClampFrequency(f) == IF f <= 0 THEN 1 ELSE f

\* The whole percentages b whose binary64 quotient b / 100.0 lies below
\* b / 100 (round-to-nearest); for the others it is exact or lies above.
QuotientBelow ==
  {3, 6, 9, 12, 15, 18, 21, 24, 29, 30, 31, 35, 36, 37, 41, 42, 43, 47, 48,
   49, 57, 58, 59, 60, 61, 62, 69, 70, 71, 72, 73, 74, 82, 83, 84, 85, 86,
   87, 94, 95, 96, 97, 98, 99}

\* The binary64 product periodUs * (b / 100.0) may lie below its exact value:
\* when the quotient does, or when periodUs = 1000000.0 / f is itself rounded.
MayRoundBelow(f, b) ==
  b \in QuotientBelow \/ (UsPerSecond % f # 0 /\ b \notin {0, FullPercent})

\* (long)(periodUs * (brightnessPercent / 100.0)).  The exact value is
\* UsPerSecond * b / (f * 100).  Where that is a whole number and the
\* binary64 product may lie below it, the cast yields that number or the one
\* below; both are kept.  Elsewhere the cast yields the exact floor.
OnTimeUsValues(f, b) ==
  LET n == UsPerSecond * b
      d == f * FullPercent
      q == Trunc(n, d)
  IN IF n % d = 0 /\ q >= 1 /\ MayRoundBelow(f, b) THEN {q - 1, q} ELSE {q}

\* Variant: the on time is not subtracted.
OffTimeUsWholePeriod(f, on) == Trunc(UsPerSecond, f)

\* (long)(periodUs - onTimeUs)
OffTimeUs(f, on) == Trunc(UsPerSecond - on * f, f)

\* ------------------------------------------------------------------------
\* Software PWM: main flow
\* ------------------------------------------------------------------------
\* Variant: a phase runs whatever its length.
RunsPhaseAlways(us) == TRUE

\* if (onTimeUs > 0), if (offTimeUs > 0)
RunsPhase(us) == us > 0

\* try { ... } catch: a throwing library call transfers to the handler
AfterAcquire(ok, next) == IF ok THEN next ELSE "catch"

\* std::cin >> chipNum >> pinNum >> frequencyHz >> brightnessPercent
PwmRead ==
  /\ MainTurn("pwm") /\ pc = "start"
  /\ chipNum' \in ChipInputs
  /\ pinNum' \in PinInputs
  /\ frequencyHz' \in FrequencyInputs
  /\ brightnessPercent' \in BrightnessInputs
  /\ pc' = "clamp"
  /\ UNCHANGED <<prog, exitKind, exitCode, acqFailed, togVars, onTimeUs, offTimeUs,
                 lineHeld, lineValue, everHigh, everLow, lastSleep>>

\* Safety checks
PwmClamp ==
  /\ MainTurn("pwm") /\ pc = "clamp"
  /\ brightnessPercent' = ClampBrightness(brightnessPercent)
  /\ frequencyHz' = ClampFrequency(frequencyHz)
  /\ pc' = "calc"
  /\ UNCHANGED <<prog, exitKind, exitCode, acqFailed, togVars, chipNum, pinNum,
                 onTimeUs, offTimeUs, lineHeld, lineValue, everHigh, everLow,
                 lastSleep>>

\* Calculate timings
PwmCalc ==
  /\ MainTurn("pwm") /\ pc = "calc"
  /\ \E on \in OnTimeUsValues(frequencyHz, brightnessPercent) :
       /\ onTimeUs' = on
       /\ offTimeUs' = OffTimeUs(frequencyHz, on)
  /\ pc' = "chip"
  /\ UNCHANGED <<prog, exitKind, exitCode, acqFailed, togVars, chipNum, pinNum,
                 frequencyHz, brightnessPercent, lineHeld, lineValue,
                 everHigh, everLow, lastSleep>>

\* gpiod::chip chip(chipPath); may throw
PwmOpenChip ==
  /\ MainTurn("pwm") /\ pc = "chip"
  /\ \E ok \in BOOLEAN : pc' = AfterAcquire(ok, "line") /\ acqFailed' = ~ok
  /\ UNCHANGED <<prog, exitKind, exitCode, togVars, pwmVars>>

\* chip.get_line(pinNum); may throw
PwmGetLine ==
  /\ MainTurn("pwm") /\ pc = "line"
  /\ \E ok \in BOOLEAN : pc' = AfterAcquire(ok, "request") /\ acqFailed' = ~ok
  /\ UNCHANGED <<prog, exitKind, exitCode, togVars, pwmVars>>

\* line.request({..., DIRECTION_OUTPUT, 0}); may throw
PwmRequest ==
  /\ MainTurn("pwm") /\ pc = "request"
  /\ \E ok \in BOOLEAN :
       /\ IF ok
            THEN lineHeld' = TRUE /\ lineValue' = 0
            ELSE UNCHANGED <<lineHeld, lineValue>>
       /\ acqFailed' = ~ok
       /\ pc' = AfterAcquire(ok, "on")
  /\ UNCHANGED <<prog, exitKind, exitCode, togVars, chipNum, pinNum,
                 frequencyHz, brightnessPercent, onTimeUs, offTimeUs,
                 everHigh, everLow, lastSleep>>

\* if (onTimeUs > 0) { line.set_value(1); sleep_for(onTimeUs); }
PwmOn ==
  /\ MainTurn("pwm") /\ pc = "on"
  /\ IF RunsPhase(onTimeUs)
       THEN lineValue' = 1 /\ everHigh' = TRUE /\ lastSleep' = onTimeUs
       ELSE UNCHANGED <<lineValue, everHigh, lastSleep>>
  /\ pc' = "off"
  /\ UNCHANGED <<prog, exitKind, exitCode, acqFailed, togVars, chipNum, pinNum,
                 frequencyHz, brightnessPercent, onTimeUs, offTimeUs,
                 lineHeld, everLow>>

\* if (offTimeUs > 0) { line.set_value(0); sleep_for(offTimeUs); }
PwmOff ==
  /\ MainTurn("pwm") /\ pc = "off"
  /\ IF RunsPhase(offTimeUs)
       THEN lineValue' = 0 /\ everLow' = TRUE /\ lastSleep' = offTimeUs
       ELSE UNCHANGED <<lineValue, everLow, lastSleep>>
  /\ pc' = "on"
  /\ UNCHANGED <<prog, exitKind, exitCode, acqFailed, togVars, chipNum, pinNum,
                 frequencyHz, brightnessPercent, onTimeUs, offTimeUs,
                 lineHeld, everHigh>>

\* catch (const std::exception& e) { ...; return 1; }
PwmCatch ==
  /\ MainTurn("pwm") /\ pc = "catch"
  /\ Exit(1) /\ pc' = "done"
  /\ UNCHANGED <<prog, acqFailed, togVars, pwmVars>>

\* ------------------------------------------------------------------------
\* Specification
\* ------------------------------------------------------------------------
Init ==
  /\ prog \in {"toggler", "pwm"}
  /\ pc = "start"
  /\ exitKind = "running"
  /\ exitCode = 0
  /\ acqFailed = FALSE
  /\ argv \in (IF prog = "toggler" THEN ArgVectors ELSE {<<>>})
  /\ targetPin = -1
  /\ gpio = "nullptr"
  /\ regSet = NoPtr /\ regClr = NoPtr /\ mask = {} /\ v = {}
  /\ window = "none"
  /\ devOpens = 0 /\ fdOpen = FALSE /\ munmaps = 0
  /\ handlers = {} /\ hstack = <<>> /\ caught = FALSE
  /\ fsel \in (IF prog = "toggler" THEN FselInits ELSE {[r \in FselRegs |-> {}]})
  /\ fsel0 = fsel
  /\ latch \in (IF prog = "toggler" THEN LatchInits ELSE {{}})
  /\ lastWrite = NoWrite
  /\ mainWrites = <<>>
  /\ faults = 0
  /\ chipNum = 0 /\ pinNum = 0
  /\ frequencyHz = 100
  /\ brightnessPercent = 0
  /\ onTimeUs = 0 /\ offTimeUs = 0
  /\ lineHeld = FALSE /\ lineValue = 0
  /\ everHigh = FALSE /\ everLow = FALSE
  /\ lastSleep = -1

Next ==
  \/ CheckArgc \/ ParsePin \/ CheckRange
  \/ OpenDevMem \/ MmapWindow \/ MapFailed
  \/ InstallSigint \/ InstallSigterm
  \/ FselRead \/ FselWrite \/ InitLow \/ BindRegs
  \/ LoopSet \/ LoopClr
  \/ CatchSignal \/ KillBySignal
  \/ HSetLow \/ HCheck \/ HMunmap \/ HNull \/ HExit
  \/ PwmRead \/ PwmClamp \/ PwmCalc
  \/ PwmOpenChip \/ PwmGetLine \/ PwmRequest
  \/ PwmOn \/ PwmOff \/ PwmCatch

Spec == Init /\ [][Next]_vars

\* ------------------------------------------------------------------------
\* Vocabulary of the properties
\* ------------------------------------------------------------------------
\* s is an integer literal: optional blanks, one optional sign, then one or
\* more digits up to the end of the string.
DenotesInteger(s) ==
  LET i0 == SkipSpace(s, 1)
      i1 == IF i0 <= Len(s) /\ s[i0] \in {"-", "+"} THEN i0 + 1 ELSE i0
  IN i1 <= Len(s) /\ \A i \in i1..Len(s) : s[i] \in Digit

\* The value of a digit string, read from its last digit.
RECURSIVE DigitsValue(_)
DigitsValue(ds) ==
  IF ds = <<>> THEN 0
  ELSE 10 * DigitsValue(SubSeq(ds, 1, Len(ds) - 1)) + DigitVal(ds[Len(ds)])

\* The integer an integer literal denotes.
IntegerOf(s) ==
  LET ds == SelectSeq(s, LAMBDA c : c \in Digit)
  IN IF \E i \in 1..Len(s) : s[i] = "-" THEN 0 - DigitsValue(ds)
     ELSE DigitsValue(ds)

Toggler == prog = "toggler"

\* The toggler was started with one integer literal as its argument.
PinArgument == Toggler /\ Len(argv) = 1 /\ DenotesInteger(argv[1])
Pwm == prog = "pwm"

\* No hardware was touched: the device was not opened, nothing is mapped, no
\* handler is installed and no register store was made or attempted.
NoHardwareAccess ==
  /\ devOpens = 0 /\ window = "none" /\ gpio = "nullptr"
  /\ handlers = {} /\ hstack = <<>>
  /\ lastWrite = NoWrite /\ mainWrites = <<>> /\ faults = 0

\* The process ends only by returning 1.
ExitsOnlyWithOne ==
  /\ exitKind = "exit" => exitCode = 1
  /\ pc = "done" => exitKind = "exit"

\* ------------------------------------------------------------------------
\* C1
\* ------------------------------------------------------------------------
\* C1: every store of the toggle loop goes to the set register, then the
\* clear register, of group targetPin / 32 with the single-bit mask
\* 1 << (targetPin % 32), and changes the level of no pin other than
\* targetPin.
C1_LoopWritesPinGroup ==
  [][(PinArgument /\ pc \in {"loop_set", "loop_clr"} /\ pc' # pc) =>
       /\ lastWrite'.word =
            (IF pc = "loop_set" THEN GPSET0 ELSE GPCLR0) + (targetPin \div 32)
       /\ lastWrite'.mask = {targetPin % 32}
       /\ \A q \in Pins \ {targetPin} : (q \in latch') <=> (q \in latch)]_vars

\* ------------------------------------------------------------------------
\* C2
\* ------------------------------------------------------------------------
\* C2: with a single argument that is not an integer literal the toggler
\* exits with code 1 and never opens the memory device or maps the window.
C2_NonNumericRejected ==
  (Toggler /\ Len(argv) = 1 /\ ~DenotesInteger(argv[1])) =>
    /\ devOpens = 0
    /\ window = "none"
    /\ ExitsOnlyWithOne

\* ------------------------------------------------------------------------
\* C3
\* ------------------------------------------------------------------------
\* C3: once a signal has been delivered with both handlers installed, the
\* main flow makes no further step, and the process ends only by the
\* handler's _exit(0), after the handler's store of the pin's clear bit, with
\* the pin's latch low and the window unmapped.
C3_SignalExitsCleanly ==
  [][(PinArgument /\ caught') =>
       /\ pc' = pc
       /\ exitKind' # "running" =>
            /\ exitKind' = "exit" /\ exitCode' = 0
            /\ lastWrite' = [by |-> "sigHandler",
                             word |-> GPCLR0 + (targetPin \div 32),
                             mask |-> {targetPin % 32}]
            /\ targetPin \notin latch'
            /\ window' = "unmapped"]_vars

\* ------------------------------------------------------------------------
\* C5
\* ------------------------------------------------------------------------
C5_Precondition ==
  /\ Toggler
  /\ \/ Len(argv) # 1
     \/ /\ DenotesInteger(argv[1])
        /\ IntegerOf(argv[1]) \notin 0..MaxPin

C6_AcquisitionFailureIsFatal ==
  acqFailed =>
    /\ pc \in {"map_failed", "catch", "done"}
    /\ ExitsOnlyWithOne
    /\ handlers = {} /\ hstack = <<>>
    /\ lastWrite = NoWrite /\ mainWrites = <<>> /\ faults = 0
    /\ gpio = "nullptr" /\ window = "none" /\ ~fdOpen
    /\ ~lineHeld /\ ~everHigh /\ ~everLow /\ lastSleep = -1

C6_Witness ==
  /\ acqFailed /\ PinArgument
  /\ devOpens = 1
  /\ exitKind = "exit" /\ exitCode = 1

\* ------------------------------------------------------------------------
\* C7
\* ------------------------------------------------------------------------
\* C7: no store is made through the window after it is unmapped or while the
\* handle is null, and the window is released exactly once on every exit of
\* the program on which it was acquired.
C7_ReleasedOnceNoUseAfterUnmap ==
  PinArgument =>
    /\ faults = 0
    /\ munmaps <= 1
    /\ (exitKind = "exit" /\ window # "none") => munmaps = 1

\* ------------------------------------------------------------------------
\* C4
\* ------------------------------------------------------------------------
Computed == Pwm /\ pc \notin {"start", "clamp", "calc"}

\* floor(1000000 / f)
PeriodFloor == UsPerSecond \div frequencyHz

SumWithinOne ==
  LET e == onTimeUs + offTimeUs - PeriodFloor IN -1 <= e /\ e <= 1

\* C4 as stated: the durations add up to floor(1000000 / f) within 1, the on
\* time is 0 exactly at 0% and the off time is 0 exactly at 100%.
C4_DurationsAsStated ==
  Computed =>
    /\ SumWithinOne
    /\ onTimeUs = 0 <=> brightnessPercent = 0
    /\ offTimeUs = 0 <=> brightnessPercent = FullPercent

\* C4 as amended: the durations add up to floor(1000000 / f) within 1; 0%
\* gives on time 0 and 100% gives off time 0; the converses hold when one
\* percent of the period is at least a microsecond (f <= 10000); f = 100,
\* b = 50 gives 5000 and 5000.
C4_DurationsAmended ==
  Computed =>
    /\ SumWithinOne
    /\ brightnessPercent = 0 => onTimeUs = 0
    /\ brightnessPercent = FullPercent => offTimeUs = 0
    /\ UsPerSecond >= FullPercent * frequencyHz =>
         /\ onTimeUs = 0 => brightnessPercent = 0
         /\ offTimeUs = 0 => brightnessPercent = FullPercent
    /\ (frequencyHz = 100 /\ brightnessPercent = 50) =>
         (PeriodFloor = 10000 /\ onTimeUs = 5000 /\ offTimeUs = 5000)

C4_Witness ==
  /\ Computed
  /\ frequencyHz = 10000 /\ brightnessPercent = 99
  /\ onTimeUs = 98 /\ offTimeUs = 2

\* ------------------------------------------------------------------------
\* C8
\* ------------------------------------------------------------------------
IsPrefix(a, b) == Len(a) <= Len(b) /\ a = SubSeq(b, 1, Len(a))

StartupOrder == IsPrefix(mainWrites, <<"fsel", "clr", "set">>)

\* C8 as stated: the main flow's first stores are the function-select store,
\* the clear store, the loop's set store, and from the function-select store
\* to the first set store the target pin is never driven high.
C8_NeverHighFromConfiguration ==
  PinArgument =>
    /\ StartupOrder
    /\ mainWrites \in {<<"fsel">>, <<"fsel", "clr">>} => ~DrivenHigh(targetPin)

\* C8 as amended: same order; from the clear store to the first set store
\* the target pin is never driven high.
C8_NeverHighFromClear ==
  Toggler =>
    /\ StartupOrder
    /\ mainWrites = <<"fsel", "clr">> => ~DrivenHigh(targetPin)

C8_Witness ==
  /\ Toggler /\ pc = "loop_set" /\ hstack = <<>>
  /\ mainWrites = <<"fsel", "clr">>
  /\ targetPin = 32
  /\ latch = Pins \ {32}
  /\ 6 \in fsel[3] /\ 7 \notin fsel[3] /\ 8 \notin fsel[3]

\* ------------------------------------------------------------------------
\* C9
\* ------------------------------------------------------------------------
FieldBits(p) == {(p % 10) * 3, (p % 10) * 3 + 1, (p % 10) * 3 + 2}

\* C9: every function-select register other than register targetPin / 10
\* keeps its start-up value, and so does every bit of that register outside
\* the 3-bit field at shift (targetPin % 10) * 3; nothing differs before the
\* function-select store, and from that store on the field is 001.
C9_OnlyTheField ==
  Toggler =>
    /\ \A r \in FselRegs :
         IF r = targetPin \div 10
           THEN fsel[r] \ FieldBits(targetPin) = fsel0[r] \ FieldBits(targetPin)
           ELSE fsel[r] = fsel0[r]
    /\ mainWrites = <<>> => fsel = fsel0
    /\ mainWrites # <<>> =>
         /\ fsel[targetPin \div 10] \cap FieldBits(targetPin)
              = {(targetPin % 10) * 3}
         /\ targetPin = 0 => fsel[0] \cap {0, 1, 2} = {0}
         /\ targetPin = 21 => fsel[2] \cap {3, 4, 5} = {3}
         /\ targetPin = 53 => fsel[5] \cap {9, 10, 11} = {9}

C9_Witness ==
  /\ Toggler /\ pc = "init_low"
  /\ targetPin = 53
  /\ fsel0[5] = AltPattern
  /\ fsel[5] = (AltPattern \ {11}) \cup {9}
  /\ fsel[4] = Bits

\* ------------------------------------------------------------------------
\* C10
\* ------------------------------------------------------------------------
InLoop == Pwm /\ pc \in {"on", "off"}

\* C10: line values are set and sleeps are issued only with the line held;
\* the line is set high and onTimeUs slept only if onTimeUs > 0, set low and
\* offTimeUs slept only if offTimeUs > 0; no sleep has length 0; at 0% the
\* line is never set high, at 100% it is never set low.
C10_LoopPhases ==
  Pwm =>
    /\ (everHigh \/ everLow \/ lastSleep # -1 \/ InLoop) => lineHeld
    /\ lastSleep # 0
    /\ everHigh => onTimeUs > 0
    /\ everLow => offTimeUs > 0
    /\ (pc = "off" /\ onTimeUs > 0) => (lineValue = 1 /\ lastSleep = onTimeUs)
    /\ (pc = "on" /\ everLow) => (lineValue = 0 /\ lastSleep = offTimeUs)
    /\ (InLoop /\ brightnessPercent = 0) => (~everHigh /\ lineValue = 0)
    /\ (InLoop /\ brightnessPercent = FullPercent) =>
         (~everLow /\ (everHigh => lineValue = 1))

C10_Witness ==
  /\ InLoop /\ pc = "on"
  /\ brightnessPercent = FullPercent /\ frequencyHz = 100
  /\ everHigh /\ ~everLow /\ lineValue = 1 /\ lastSleep = 10000

====
